---- MODULE Spec2Model ----
(***************************************************************************)
(* nb.binterpolate~ : per-bin interpolation of an FFT signal.              *)
(*                                                                         *)
(* The object t_interp is the record x.  Floating-point values (the atoms  *)
(* of the per-bin arrays, the seconds of the configuration) are exact      *)
(* rationals <<num, den>> with den > 0 in lowest terms; integer fields are *)
(* integers.  The per-bin arrays are functions over 0 .. fftSize-1.        *)
(***************************************************************************)
EXTENDS Integers, Sequences, FiniteSets, TLC

(***************************************************************************)
(* Program constants (src/nb.binterpolate~.c:16-23).                       *)
(***************************************************************************)
DEFAULT_LENGTH == 10
MAX_LENGTH == 30
MIN_LENGTH == 0
DEFAULT_VARIANCE == 2
MAX_VARIANCE == 15
MIN_VARIANCE == 0
MIN_INTERP_FRAMES == 1

(***************************************************************************)
(* Bounds of the model.                                                    *)
(***************************************************************************)
\* number of bins of the modelled transform (x->fftSize)
FftSize == 2
\* random()/RAND_MAX is drawn from 0/ScaleDen, 1/ScaleDen, .. , ScaleDen/ScaleDen
ScaleDen == 2
\* number of frames processed by the perform calls of one behaviour
MaxFrames == 3

(***************************************************************************)
(* Exact rational arithmetic standing for float/double arithmetic.         *)
(***************************************************************************)
Abs(a) == IF a < 0 THEN -a ELSE a

RECURSIVE Gcd(_, _)
Gcd(a, b) == IF b = 0 THEN a ELSE Gcd(b, a % b)

\* the rational n/d (d # 0) in lowest terms with a positive denominator
Rat(n, d) ==
    LET g == Gcd(Abs(n), Abs(d))
        s == IF d < 0 THEN -1 ELSE 1
    IN  <<(s * n) \div g, (s * d) \div g>>

RInt(k) == <<k, 1>>
RAdd(p, q) ==
    LET g == Gcd(p[2], q[2])
    IN  Rat(p[1] * (q[2] \div g) + q[1] * (p[2] \div g), (p[2] \div g) * q[2])
RNeg(p) == <<-p[1], p[2]>>
RSub(p, q) == RAdd(p, RNeg(q))
RMulI(p, k) == Rat(p[1] * k, p[2])
\* division of a double by an integer; x/0 is an infinity <<+-1, 0>> or a NaN <<0, 0>>
RDivI(p, k) ==
    IF k = 0 THEN <<(IF p[1] > 0 THEN 1 ELSE IF p[1] < 0 THEN -1 ELSE 0), 0>>
    ELSE Rat(p[1], p[2] * k)
RLess(p, q) == p[1] * q[2] < q[1] * p[2]

\* C conversion of a quotient to int: truncation toward zero
TruncDiv(a, b) == IF a >= 0 THEN a \div b ELSE -((-a) \div b)

\* round to nearest (half away from zero) of a non-negative quotient
RoundDiv(a, b) == (2 * a + b) \div (2 * b)

(***************************************************************************)
(* CLAMP(a, lo, hi) of the Max SDK, as used on int and on float operands:  *)
(*   ((a) > (lo) ? ((a) < (hi) ? (a) : (hi)) : (lo))                       *)
(***************************************************************************)
CLAMP(a, lo, hi) == IF a > lo THEN (IF a < hi THEN a ELSE hi) ELSE lo

\* a clamp that lost its upper bound
CLAMPF_noUpper(a, lo, hi) == IF RLess(RInt(lo), a) THEN a ELSE RInt(lo)

CLAMPF(a, lo, hi) ==
    IF RLess(RInt(lo), a) THEN (IF RLess(a, RInt(hi)) THEN a ELSE RInt(hi)) ELSE RInt(lo)

(***************************************************************************)
(* Helper functions of the source.                                         *)
(***************************************************************************)
\* a draw over max - min + 1 values, which can return max + 1
irand_inclusive(min, max, s) ==
    TruncDiv(min * ScaleDen + s * (max - min + 1), ScaleDen)

\* a draw that returns the scaled span without adding min
irand_spanOnly(min, max, s) == TruncDiv(s * (max - min), ScaleDen)

\* irand(min, max) with scale = random()/RAND_MAX = s/ScaleDen:
\*   return min + ((float)scale * (float)(max-min));   (float -> int truncates)
irand(min, max, s) == TruncDiv(min * ScaleDen + s * (max - min), ScaleDen)

\* a conversion that rounds to nearest instead of truncating
secondsToFrames_rounding(seconds, sampleRate, fftSize) ==
    RoundDiv(seconds[1] * sampleRate, seconds[2] * fftSize)

\* secondsToFrames: (int)((seconds * sampleRate) / fftSize)
secondsToFrames(seconds, sampleRate, fftSize) ==
    TruncDiv(seconds[1] * sampleRate, seconds[2] * fftSize)

(***************************************************************************)
(* State.                                                                  *)
(*   x     the object (struct _interp)                                     *)
(*   call  the last control-path call and the arguments with which         *)
(*         setInterpolationTime was last entered (history kept by the      *)
(*         configuration specification)                                    *)
(*   obs   what the last perform call did (history)                        *)
(*   ctl   the control thread inside setInterpolationTime (interleaved     *)
(*         specification)                                                  *)
(*   aud   the audio thread inside interp_perform64 (interleaved           *)
(*         specification)                                                  *)
(*   performed   the number of frames performed so far                     *)
(***************************************************************************)
(*   leg   per bin, the history of its current leg: the baseline and the   *)
(*         range of its last target acquisition, its steps since, the      *)
(*         value it last emitted, whether its last step completed a leg    *)
(*         (done) and whether that leg's range was a single value (fixed)  *)
VARIABLES x, call, obs, leg, ctl, aud, performed

vars == <<x, call, obs, leg, ctl, aud, performed>>

Zero == RInt(0)

Bins(o) == 0 .. (o.fftSize - 1)

(***************************************************************************)
(* setInterpolationTime, one operator per store of the function.           *)
(***************************************************************************)
\* line 241
setLengthSecs(o, interpLengthSecs) ==
    [o EXCEPT !.interpLengthSecs = CLAMPF(interpLengthSecs, MIN_LENGTH, MAX_LENGTH)]

\* line 242
setLengthFrames(o) ==
    [o EXCEPT !.interpLengthFrames =
        secondsToFrames(o.interpLengthSecs, o.sampleRate, o.fftSize)]

\* line 243
floorLengthFrames(o) ==
    [o EXCEPT !.interpLengthFrames =
        IF o.interpLengthFrames < MIN_INTERP_FRAMES
        THEN MIN_INTERP_FRAMES ELSE o.interpLengthFrames]

\* line 246
setVarianceSecs(o, interpVarianceSecs) ==
    [o EXCEPT !.interpVarianceSecs = CLAMPF(interpVarianceSecs, MIN_VARIANCE, MAX_VARIANCE)]

\* line 247
setVarianceFrames(o) ==
    [o EXCEPT !.interpVarianceFrames =
        secondsToFrames(o.interpVarianceSecs, o.sampleRate, o.fftSize)]

\* lines 250-251
setInterpMin(o) ==
    LET minVar == o.interpLengthFrames - o.interpVarianceFrames
    IN  [o EXCEPT !.interpMin = IF minVar <= 0 THEN 1 ELSE minVar]

\* an upper bound that adds the variance to the previous upper bound
setInterpMax_accumulate(o) ==
    [o EXCEPT !.interpMax = o.interpMax + o.interpVarianceFrames]

\* line 252
setInterpMax(o) ==
    [o EXCEPT !.interpMax = o.interpLengthFrames + o.interpVarianceFrames]

setInterpolationTime(o, interpLengthSecs, interpVarianceSecs) ==
    setInterpMax(setInterpMin(setVarianceFrames(setVarianceSecs(
        floorLengthFrames(setLengthFrames(setLengthSecs(o, interpLengthSecs))),
        interpVarianceSecs))))

(***************************************************************************)
(* Constructor: the object after interp_new with sample rate sr            *)
(* (sys_getsr), transform size fft (getFFTSize) and the two arguments      *)
(* (or their defaults).  sysmem_newptrclear zeroes every atom.  null is the *)
(* set of the per-bin arrays whose pointer is NULL: none when every         *)
(* allocation succeeded.                                                   *)
(***************************************************************************)
\* the per-bin arrays, in the order of their allocation (lines 115-123)
Arrays ==
    { "currMag", "currPhase", "targetMag", "targetPhase", "incMag", "incPhase",
      "totalFrames", "frameCount", "updateTarget" }

interp_new(sr, fft, interpLength, interpVariance) ==
    LET zf == [b \in 0 .. (fft - 1) |-> Zero]
        zl == [b \in 0 .. (fft - 1) |-> 0]
        o  == [ fftSize |-> fft, sampleRate |-> sr,
                currMag |-> zf, currPhase |-> zf,
                targetMag |-> zf, targetPhase |-> zf,
                incMag |-> zf, incPhase |-> zf,
                totalFrames |-> zl, frameCount |-> zl, updateTarget |-> zl,
                interpLengthSecs |-> Zero, interpVarianceSecs |-> Zero,
                interpLengthFrames |-> 0, interpVarianceFrames |-> 0,
                interpMin |-> 0, interpMax |-> 0, null |-> {}, freed |-> {} ]
    IN  setInterpolationTime(o, interpLength, interpVariance)

\* lines 115-123 and 125 when sysmem_newptrclear returns NULL for the arrays
\* in failed: the pointers are stored unchecked and the object is returned
interp_new_failing(sr, fft, interpLength, interpVariance, failed) ==
    [interp_new(sr, fft, interpLength, interpVariance) EXCEPT !.null = failed]

(***************************************************************************)
(* interp_free: the arrays passed to sysmem_freeptr (lines 133-138) are    *)
(* added to freed, the set of the per-bin arrays that have been released.  *)
(***************************************************************************)
interp_free(o) ==
    [o EXCEPT !.freed = @ \cup { "currMag", "currPhase", "targetMag", "targetPhase",
                                 "incMag", "incPhase" }]

(***************************************************************************)
(* interp_dsp64: stores the sample rate and raises every updateTarget flag.*)
(***************************************************************************)
interp_dsp64(o, samplerate) ==
    [o EXCEPT !.sampleRate = samplerate,
              !.updateTarget = [b \in Bins(o) |-> 1]]

(***************************************************************************)
(* interp_float (and interp_int, which forwards to it).                    *)
(***************************************************************************)
\* a float handler that also raises every updateTarget flag, restarting the
\* legs with the new timing
interp_float_restart(o, inlet, f) ==
    LET o1 == IF inlet = 0 THEN setInterpolationTime(o, f, o.interpVarianceSecs)
              ELSE IF inlet = 1 THEN setInterpolationTime(o, o.interpLengthSecs, f)
              ELSE o
    IN  [o1 EXCEPT !.updateTarget = [b \in Bins(o) |-> 1]]

interp_float(o, inlet, f) ==
    IF inlet = 0 THEN setInterpolationTime(o, f, o.interpVarianceSecs)
    ELSE IF inlet = 1 THEN setInterpolationTime(o, o.interpLengthSecs, f)
    ELSE o

\* an updateTarget that divides the deltas by the upper bound of the range
\* instead of the drawn duration
updateTarget_divMax(o, mag, phase, fftBin, lo, hi, s) ==
    LET bin        == CLAMP(fftBin, 0, o.fftSize - 1)
        frames     == irand(lo, hi, s)
        magDelta   == RDivI(RSub(mag, o.currMag[bin]), hi)
        phaseDelta == RDivI(RSub(phase, o.currPhase[bin]), hi)
    IN  [o EXCEPT !.targetMag[bin]    = mag,
                  !.targetPhase[bin]  = phase,
                  !.totalFrames[bin]  = frames,
                  !.incMag[bin]       = magDelta,
                  !.incPhase[bin]     = phaseDelta,
                  !.updateTarget[bin] = 0,
                  !.frameCount[bin]   = 0]

\* an updateTarget that does not reset the frame counter
updateTarget_keepCount(o, mag, phase, fftBin, lo, hi, s) ==
    LET bin        == CLAMP(fftBin, 0, o.fftSize - 1)
        frames     == irand(lo, hi, s)
        magDelta   == RDivI(RSub(mag, o.currMag[bin]), frames)
        phaseDelta == RDivI(RSub(phase, o.currPhase[bin]), frames)
    IN  [o EXCEPT !.targetMag[bin]    = mag,
                  !.targetPhase[bin]  = phase,
                  !.totalFrames[bin]  = frames,
                  !.incMag[bin]       = magDelta,
                  !.incPhase[bin]     = phaseDelta,
                  !.updateTarget[bin] = 0]

(***************************************************************************)
(* updateTarget.  lo and hi are the values read from x->interpMin and      *)
(* x->interpMax for the call of irand, s is the draw of random().          *)
(***************************************************************************)
updateTarget(o, mag, phase, fftBin, lo, hi, s) ==
    LET bin        == CLAMP(fftBin, 0, o.fftSize - 1)
        frames     == irand(lo, hi, s)
        magDelta   == RDivI(RSub(mag, o.currMag[bin]), frames)
        phaseDelta == RDivI(RSub(phase, o.currPhase[bin]), frames)
    IN  [o EXCEPT !.targetMag[bin]    = mag,
                  !.targetPhase[bin]  = phase,
                  !.totalFrames[bin]  = frames,
                  !.incMag[bin]       = magDelta,
                  !.incPhase[bin]     = phaseDelta,
                  !.updateTarget[bin] = 0,
                  !.frameCount[bin]   = 0]

(***************************************************************************)
(* Target-refresh pass of interp_perform64, position i (lines 317-320).    *)
(* The position indexes the arrays directly.  For i outside the table the  *)
(* read of x->updateTarget+i is a read past the allocation: it yields any  *)
(* value, and the stores to currMag+i / currPhase+i land outside the table.*)
(***************************************************************************)
refreshFlags(o, i) ==
    IF i \in Bins(o) THEN {o.updateTarget[i] # 0} ELSE BOOLEAN

carryTarget(o, i) ==
    IF i \in Bins(o)
    THEN [o EXCEPT !.currMag[i] = o.targetMag[i], !.currPhase[i] = o.targetPhase[i]]
    ELSE o

\* a step whose completion test is framePos > totalFrames
stepBin_late(o, fftBin) ==
    LET bin      == CLAMP(fftBin, 0, o.fftSize - 1)
        framePos == o.frameCount[bin] + 1
        reached  == framePos > o.totalFrames[bin]
    IN  [o EXCEPT !.currMag[bin]      = RAdd(o.currMag[bin], o.incMag[bin]),
                  !.currPhase[bin]    = RAdd(o.currPhase[bin], o.incPhase[bin]),
                  !.frameCount[bin]   = IF reached THEN 0 ELSE framePos,
                  !.updateTarget[bin] = IF reached THEN 1 ELSE o.updateTarget[bin]]

\* a step that raises the flag at completion but leaves frameCount as it is
stepBin_noReset(o, fftBin) ==
    LET bin      == CLAMP(fftBin, 0, o.fftSize - 1)
        framePos == o.frameCount[bin] + 1
        reached  == framePos >= o.totalFrames[bin]
    IN  [o EXCEPT !.currMag[bin]      = RAdd(o.currMag[bin], o.incMag[bin]),
                  !.currPhase[bin]    = RAdd(o.currPhase[bin], o.incPhase[bin]),
                  !.frameCount[bin]   = framePos,
                  !.updateTarget[bin] = IF reached THEN 1 ELSE o.updateTarget[bin]]

(***************************************************************************)
(* Step pass of interp_perform64 for one frame (lines 332-351).            *)
(***************************************************************************)
stepBin(o, fftBin) ==
    LET bin      == CLAMP(fftBin, 0, o.fftSize - 1)
        framePos == o.frameCount[bin] + 1
        reached  == framePos >= o.totalFrames[bin]
    IN  [o EXCEPT !.currMag[bin]      = RAdd(o.currMag[bin], o.incMag[bin]),
                  !.currPhase[bin]    = RAdd(o.currPhase[bin], o.incPhase[bin]),
                  !.frameCount[bin]   = IF reached THEN 0 ELSE framePos,
                  !.updateTarget[bin] = IF reached THEN 1 ELSE o.updateTarget[bin]]

\* lines 328-352 on the object alone: the step pass from frame k on
RECURSIVE stepPass(_, _, _, _)
stepPass(o, k, n, in_index) ==
    IF k >= n THEN o ELSE stepPass(stepBin(o, in_index[k]), k + 1, n, in_index)

(***************************************************************************)
(* One perform call with its history.  A machine m is the object m.o       *)
(* together with the history written while the block runs:                 *)
(*   reads  the positions with which the refresh pass indexed the arrays   *)
(*   bins   the resolved bins used by updateTarget and by the step pass    *)
(*   acqs   the target acquisitions of the block, in order                 *)
(*   emits  the frames written to the outlets, in order                    *)
(***************************************************************************)
\* the entry of bin b in the per-bin arrays of o
Entry(o, b) ==
    [ currMag |-> o.currMag[b], currPhase |-> o.currPhase[b],
      targetMag |-> o.targetMag[b], targetPhase |-> o.targetPhase[b],
      incMag |-> o.incMag[b], incPhase |-> o.incPhase[b],
      totalFrames |-> o.totalFrames[b], frameCount |-> o.frameCount[b],
      updateTarget |-> o.updateTarget[b] ]

\* an acquisition record also holds: legDone, whether the last step of the
\* bin completed a leg; index, the bin index passed to
\* updateTarget, and drawn, the value irand returned; after, the entry of
\* the resolved bin when updateTarget returned (baseMag and basePhase are
\* its current values when updateTarget was entered); touched, the bins
\* whose entry updateTarget changed; carriedMag and carriedPhase, the target
\* of the entry at the position i before line 319, and own, that entry after
\* line 323 (the entry of the resolved bin when i is outside the table)
Acquire(m, i, mag, phase, fftBin, lo, hi, s) ==
    LET o1  == carryTarget(m.o, i)
        o2  == updateTarget(o1, mag, phase, fftBin, lo, hi, s)
        bin == CLAMP(fftBin, 0, m.o.fftSize - 1)
        lg  == m.leg[bin]
        a   == [ pos |-> i, bin |-> bin, lo |-> lo, hi |-> hi,
                 cfgMin |-> m.o.interpMin, cfgMax |-> m.o.interpMax,
                 frames |-> o2.totalFrames[bin],
                 mag |-> mag, phase |-> phase,
                 baseMag |-> o1.currMag[bin], basePhase |-> o1.currPhase[bin],
                 prevTargetMag |-> m.o.targetMag[bin],
                 prevTargetPhase |-> m.o.targetPhase[bin],
                 lastMag |-> lg.lastMag, lastPhase |-> lg.lastPhase,
                 had |-> lg.had /\ lg.steps > 0, legDone |-> lg.done,
                 index |-> fftBin, drawn |-> irand(lo, hi, s),
                 after |-> Entry(o2, bin),
                 touched |-> { b \in Bins(o1) : Entry(o2, b) # Entry(o1, b) },
                 carriedMag |-> m.o.targetMag[IF i \in Bins(o1) THEN i ELSE bin],
                 carriedPhase |-> m.o.targetPhase[IF i \in Bins(o1) THEN i ELSE bin],
                 own |-> Entry(o2, IF i \in Bins(o1) THEN i ELSE bin) ]
    IN  [m EXCEPT !.o = o2,
                  !.bins = @ \cup {bin},
                  !.acqs = Append(@, a),
                  !.leg[bin] = [lg EXCEPT !.initMag = o1.currMag[bin],
                                          !.initPhase = o1.currPhase[bin],
                                          !.steps = 0, !.lo = lo, !.hi = hi,
                                          !.had = TRUE]]

\* a step record also holds countBefore and countAfter, the frameCount of the
\* bin before and after the step, and flagAfter, its flag after the step
StepFrame(m, fftBin) ==
    LET o2  == stepBin(m.o, fftBin)
        bin == CLAMP(fftBin, 0, m.o.fftSize - 1)
        lg  == m.leg[bin]
        fl  == m.o.updateTarget[bin] # 0
        dn  == o2.frameCount[bin] = 0
        e   == [ bin |-> bin, flag |-> fl, k |-> lg.steps + 1,
                 T |-> m.o.totalFrames[bin], lo |-> lg.lo, hi |-> lg.hi,
                 done |-> dn,
                 mag |-> o2.currMag[bin], phase |-> o2.currPhase[bin],
                 prevMag |-> lg.lastMag, prevPhase |-> lg.lastPhase,
                 prevDone |-> lg.done, prevFixed |-> lg.fixed,
                 initMag |-> lg.initMag, initPhase |-> lg.initPhase,
                 incMag |-> m.o.incMag[bin], incPhase |-> m.o.incPhase[bin],
                 targetMag |-> m.o.targetMag[bin],
                 targetPhase |-> m.o.targetPhase[bin],
                 countBefore |-> m.o.frameCount[bin],
                 countAfter |-> o2.frameCount[bin],
                 flagAfter |-> o2.updateTarget[bin] # 0 ]
    IN  [m EXCEPT !.o = o2,
                  !.bins = @ \cup {bin},
                  !.emits = Append(@, e),
                  !.leg[bin] = [lg EXCEPT !.steps = @ + 1,
                                          !.lastMag = o2.currMag[bin],
                                          !.lastPhase = o2.currPhase[bin],
                                          !.done = (~fl) /\ dn,
                                          !.fixed = (lg.lo = lg.hi)]]

\* the input streams (magnitude, phase) of a block of n frames: a flat
\* spectrum at one of two levels, or a ramp over the frames
SampleStreams(n) ==
    { [i \in 0 .. (n - 1) |-> <<RInt(1), RInt(0)>>],
      [i \in 0 .. (n - 1) |-> <<RInt(2), RInt(1)>>],
      [i \in 0 .. (n - 1) |-> <<RInt(i + 1), RInt(i)>>] }

\* bin-index values outside the table: one below, one above
IdxVals == {-1, FftSize}

\* the signal vector sizes: one frame, the transform size, and one more
BlockLens == {1, FftSize, FftSize + 1}

\* the bin-index streams of a block of n frames: the bin of each frame is its
\* position (the stream inside pfft~), its position reversed, or one and
\* the same out-of-table value in every frame
IndexStreams(n) ==
    { [i \in 0 .. (n - 1) |-> i], [i \in 0 .. (n - 1) |-> n - 1 - i] }
    \cup { [i \in 0 .. (n - 1) |-> v] : v \in IdxVals }

\* lines 316-325: the outcomes of the refresh pass from position i on
RECURSIVE RefreshFrom(_, _, _, _, _)
RefreshFrom(m, i, n, in_sig, in_index) ==
    IF i >= n THEN {m}
    ELSE LET m1 == [m EXCEPT !.reads = @ \cup {i}]
         IN  UNION { IF fl
                     THEN UNION { RefreshFrom(
                                     Acquire(m1, i, in_sig[i][1], in_sig[i][2], in_index[i],
                                             m1.o.interpMin, m1.o.interpMax, s),
                                     i + 1, n, in_sig, in_index)
                                  : s \in 0 .. ScaleDen }
                     ELSE RefreshFrom(m1, i + 1, n, in_sig, in_index)
                   : fl \in refreshFlags(m.o, i) }

\* lines 328-352: the step pass from frame k on
RECURSIVE StepFrom(_, _, _, _)
StepFrom(m, k, n, in_index) ==
    IF k >= n THEN m
    ELSE StepFrom(StepFrame(m, in_index[k]), k + 1, n, in_index)

\* interp_perform64 on sampleframes = n frames: its possible outcomes
interp_perform64(o, lg, n, in_sig, in_index) ==
    LET m0 == [ o |-> o, leg |-> lg, reads |-> {}, bins |-> {},
                acqs |-> <<>>, emits |-> <<>> ]
    IN  { StepFrom(m, 0, n, in_index) : m \in RefreshFrom(m0, 0, n, in_sig, in_index) }

(***************************************************************************)
(* Sequential specification: every handler runs to completion.             *)
(***************************************************************************)
R(n, d) == Rat(n, d)

\* the sample rates, lengths and variances of the behaviours with audio: one
\* transform per second, two seconds of length, no or one second of variance
SampleRates == {FftSize}
LengthArgs == { R(2, 1) }
VarianceArgs == { R(0, 1), R(1, 1) }

NoObs == [ n |-> 0, reads |-> {}, bins |-> {}, acqs |-> <<>>, emits |-> <<>> ]

NoLeg == [ initMag |-> Zero, initPhase |-> Zero, steps |-> 0, lo |-> 0, hi |-> 0,
           lastMag |-> Zero, lastPhase |-> Zero, had |-> FALSE, done |-> FALSE,
           fixed |-> FALSE ]

\* the control thread outside setInterpolationTime; old and new are the
\* ranges <<interpMin, interpMax>> before and after its last call
CtlIdle == [ pc |-> "idle", len |-> Zero, var |-> Zero, old |-> <<0, 0>>, new |-> <<0, 0>> ]

\* the audio thread outside interp_perform64; on: the perform method is in
\* the DSP chain
AudIdle ==
    [ on |-> FALSE, pc |-> "idle", n |-> 0, i |-> 0, in_sig |-> <<>>, in_index |-> <<>>,
      first |-> "none", val |-> 0, ranges |-> {},
      draw |-> [ frames |-> 0, ranges |-> {} ] ]

\* the frame counts setInterpolationTime derives
Derived(o) ==
    <<o.interpLengthFrames, o.interpVarianceFrames, o.interpMin, o.interpMax>>

\* call.again: the last call of setInterpolationTime had the arguments of the
\* call before it, with no DSP start in between; call.was: the derived
\* frame counts when the last call was entered
NoCall == [ op |-> "none", len |-> Zero, var |-> Zero, again |-> FALSE,
            was |-> <<0, 0, 0, 0>> ]

\* the object as constructed, nothing performed yet
InitWith(rates, sizes, lengths, variances, recorded) ==
    /\ \E sr \in rates, fft \in sizes, len \in lengths, var \in variances :
        /\ x = interp_new(sr, fft, len, var)
        /\ leg = [b \in 0 .. (fft - 1) |-> NoLeg]
        /\ call = IF recorded
                  THEN [NoCall EXCEPT !.op = "interp_new", !.len = len, !.var = var]
                  ELSE NoCall
    /\ obs = NoObs
    /\ ctl = CtlIdle
    /\ aud = AudIdle
    /\ performed = 0

Init == InitWith(SampleRates, {FftSize}, LengthArgs, VarianceArgs, FALSE)

\* a float (or int) message in inlet 0 or 1
Float ==
    /\ ctl.pc = "idle"
    /\ \E inlet \in {0, 1} : \E f \in (IF inlet = 0 THEN LengthArgs ELSE VarianceArgs) :
        x' = interp_float(x, inlet, f)
    /\ UNCHANGED <<call, obs, leg, ctl, aud, performed>>

\* the DSP chain is compiled: audio is switched on
Dsp64 ==
    /\ ctl.pc = "idle"
    /\ aud.pc = "idle"
    /\ \E samplerate \in SampleRates : x' = interp_dsp64(x, samplerate)
    /\ aud' = [aud EXCEPT !.on = TRUE]
    /\ UNCHANGED <<call, obs, leg, ctl, performed>>

\* one signal vector is processed
Perform ==
    /\ aud.on
    /\ aud.pc = "idle"
    /\ \E n \in BlockLens : \E in_sig \in SampleStreams(n), in_index \in IndexStreams(n) :
        /\ performed + n <= MaxFrames
        /\ performed' = performed + n
        /\ \E m \in interp_perform64(x, leg, n, in_sig, in_index) :
            /\ x' = m.o
            /\ leg' = m.leg
            /\ obs' = [ n |-> n, reads |-> m.reads, bins |-> m.bins,
                        acqs |-> m.acqs, emits |-> m.emits ]
    /\ UNCHANGED <<call, ctl, aud>>

Next == Float \/ Dsp64 \/ Perform

Spec == Init /\ [][Next]_vars

(***************************************************************************)
(* Configuration specification: construction, float messages and DSP       *)
(* starts over wide ranges of arguments, sample rates and transform sizes; *)
(* call records the last control call.                                     *)
(***************************************************************************)
CfgRates == {1, 2, 3, 5}
CfgSizes == {2, 4}
CfgLengths ==
    { R(-1, 1), R(0, 1), R(1, 2), R(1, 1), R(3, 2), R(10, 1), R(30, 1), R(31, 1),
      R(1000, 1) }
CfgVariances ==
    { R(-1, 1), R(0, 1), R(1, 2), R(1, 1), R(15, 1), R(16, 1), R(1000, 1) }

InitCfg ==
    InitWith(CfgRates, CfgSizes,
             CfgLengths \cup {RInt(DEFAULT_LENGTH)},
             CfgVariances \cup {RInt(DEFAULT_VARIANCE)}, TRUE)

FloatCfg ==
    /\ ctl.pc = "idle"
    /\ \E inlet \in {0, 1} : \E f \in (IF inlet = 0 THEN CfgLengths ELSE CfgVariances) :
        /\ x' = interp_float(x, inlet, f)
        /\ LET len == IF inlet = 0 THEN f ELSE x.interpLengthSecs
               var == IF inlet = 1 THEN f ELSE x.interpVarianceSecs
           IN  call' = [ op |-> "interp_float", len |-> len, var |-> var,
                         again |-> /\ call.op \in {"interp_new", "interp_float"}
                                   /\ len = call.len /\ var = call.var,
                         was |-> Derived(x) ]
    /\ UNCHANGED <<obs, leg, ctl, aud, performed>>

Dsp64Cfg ==
    /\ ctl.pc = "idle"
    /\ aud.pc = "idle"
    /\ \E samplerate \in CfgRates :
        /\ x' = interp_dsp64(x, samplerate)
        /\ call' = [call EXCEPT !.op = "interp_dsp64", !.again = FALSE]
    /\ aud' = [aud EXCEPT !.on = TRUE]
    /\ UNCHANGED <<obs, leg, ctl, performed>>

NextCfg == FloatCfg \/ Dsp64Cfg

SpecCfg == InitCfg /\ [][NextCfg]_vars

(***************************************************************************)
(* Construction specification: the objects interp_new returns when any of  *)
(* its allocations of per-bin arrays may fail, the float messages they     *)
(* then take (interp_float touches none of the arrays), and their          *)
(* destruction, after which the object takes no message.                   *)
(***************************************************************************)
InitNew ==
    /\ \E sr \in CfgRates, fft \in CfgSizes, failed \in SUBSET Arrays :
        x = interp_new_failing(sr, fft, RInt(DEFAULT_LENGTH), RInt(DEFAULT_VARIANCE),
                               failed)
    /\ leg = [b \in Bins(x) |-> NoLeg]
    /\ call = [NoCall EXCEPT !.op = "interp_new", !.len = RInt(DEFAULT_LENGTH),
                             !.var = RInt(DEFAULT_VARIANCE)]
    /\ obs = NoObs
    /\ ctl = CtlIdle
    /\ aud = AudIdle
    /\ performed = 0

FloatNew ==
    /\ call.op # "interp_free"
    /\ \E inlet \in {0, 1} : \E f \in (IF inlet = 0 THEN LengthArgs ELSE VarianceArgs) :
        x' = interp_float(x, inlet, f)
    /\ UNCHANGED <<call, obs, leg, ctl, aud, performed>>

\* the object is deleted
FreeNew ==
    /\ call.op # "interp_free"
    /\ x' = interp_free(x)
    /\ call' = [call EXCEPT !.op = "interp_free"]
    /\ UNCHANGED <<obs, leg, ctl, aud, performed>>

NextNew == FloatNew \/ FreeNew

SpecNew == InitNew /\ [][NextNew]_vars

(***************************************************************************)
(* Interleaved specification: the control thread runs setInterpolationTime *)
(* one store at a time while the audio thread runs interp_perform64; the   *)
(* two reads x->interpMin and x->interpMax of the call of irand are two    *)
(* steps, in either order.  Nothing else of the perform method reads the   *)
(* configuration, so the rest of each acquisition is one step and the step *)
(* pass is one step.  The DSP start runs while neither is under way.  The  *)
(* histories obs and leg are not kept here; aud.draw is the last duration  *)
(* drawn, with the ranges in effect while its two reads were made.         *)
(***************************************************************************)
RaceLengths == { R(1, 1), R(3, 1) }
RaceVariances == { R(0, 1) }

\* the blocks of the interleaved behaviours: a flat spectrum, each frame
\* carrying the bin of its position
RaceSampleStreams(n) == { [i \in 0 .. (n - 1) |-> <<RInt(1), RInt(0)>>] }
RaceIndexStreams(n) == { [i \in 0 .. (n - 1) |-> i] }

Range(o) == <<o.interpMin, o.interpMax>>

InitRace == InitWith(SampleRates, {FftSize}, RaceLengths, RaceVariances, FALSE)

\* interp_float is entered: the arguments of setInterpolationTime are evaluated
RaceFloat ==
    /\ ctl.pc = "idle"
    /\ \E inlet \in {0, 1} : \E f \in (IF inlet = 0 THEN RaceLengths ELSE RaceVariances) :
        LET len == IF inlet = 0 THEN f ELSE x.interpLengthSecs
            var == IF inlet = 1 THEN f ELSE x.interpVarianceSecs
            new == Range(setInterpolationTime(x, len, var))
        IN  /\ ctl' = [ pc |-> "l241", len |-> len, var |-> var,
                        old |-> Range(x), new |-> new ]
            /\ aud' = IF aud.pc = "read2"
                      THEN [aud EXCEPT !.ranges = @ \cup {new}] ELSE aud
    /\ UNCHANGED <<x, call, obs, leg, performed>>

CtlStore(at, o, next) ==
    /\ ctl.pc = at
    /\ x' = o
    /\ ctl' = [ctl EXCEPT !.pc = next]
    /\ UNCHANGED <<call, obs, leg, aud, performed>>

Ctl241 == CtlStore("l241", setLengthSecs(x, ctl.len), "l242")
Ctl242 == CtlStore("l242", setLengthFrames(x), "l243")
Ctl243 == CtlStore("l243", floorLengthFrames(x), "l246")
Ctl246 == CtlStore("l246", setVarianceSecs(x, ctl.var), "l247")
Ctl247 == CtlStore("l247", setVarianceFrames(x), "l251")
Ctl251 == CtlStore("l251", setInterpMin(x), "l252")
Ctl252 == CtlStore("l252", setInterpMax(x), "idle")

RaceDsp64 ==
    /\ ctl.pc = "idle"
    /\ aud.pc = "idle"
    /\ \E samplerate \in SampleRates : x' = interp_dsp64(x, samplerate)
    /\ aud' = [aud EXCEPT !.on = TRUE]
    /\ UNCHANGED <<call, obs, leg, ctl, performed>>

\* interp_perform64 is entered on a block of n frames
RaceBegin ==
    /\ aud.on
    /\ aud.pc = "idle"
    /\ \E n \in BlockLens : \E in_sig \in RaceSampleStreams(n), in_index \in RaceIndexStreams(n) :
        /\ performed + n <= MaxFrames
        /\ aud' = [aud EXCEPT !.pc = "refresh", !.n = n, !.i = 0, !.in_sig = in_sig,
                              !.in_index = in_index]
    /\ UNCHANGED <<x, call, obs, leg, ctl, performed>>

\* line 317 at position aud.i: the flag is down
RaceSkip ==
    /\ aud.pc = "refresh"
    /\ aud.i < aud.n
    /\ FALSE \in refreshFlags(x, aud.i)
    /\ aud' = [aud EXCEPT !.i = @ + 1]
    /\ UNCHANGED <<x, call, obs, leg, ctl, performed>>

\* line 317 at position aud.i: the flag is up; updateTarget is entered
RaceFire ==
    /\ aud.pc = "refresh"
    /\ aud.i < aud.n
    /\ TRUE \in refreshFlags(x, aud.i)
    /\ aud' = [aud EXCEPT !.pc = "read1"]
    /\ UNCHANGED <<x, call, obs, leg, ctl, performed>>

\* line 269: the first of the two arguments of irand is read
RaceRead1 ==
    /\ aud.pc = "read1"
    /\ \E first \in {"min", "max"} :
        aud' = [aud EXCEPT !.pc = "read2", !.first = first,
                           !.val = IF first = "min" THEN x.interpMin ELSE x.interpMax,
                           !.ranges = IF ctl.pc = "idle" THEN {Range(x)}
                                      ELSE {ctl.old, ctl.new}]
    /\ UNCHANGED <<x, call, obs, leg, ctl, performed>>

\* line 269: the second argument is read and the duration drawn; lines
\* 319-320 and the rest of updateTarget
RaceRead2 ==
    /\ aud.pc = "read2"
    /\ \E s \in 0 .. ScaleDen :
        LET lo == IF aud.first = "min" THEN aud.val ELSE x.interpMin
            hi == IF aud.first = "max" THEN aud.val ELSE x.interpMax
        IN  /\ x' = updateTarget(carryTarget(x, aud.i), aud.in_sig[aud.i][1],
                                 aud.in_sig[aud.i][2], aud.in_index[aud.i], lo, hi, s)
            /\ aud' = [aud EXCEPT !.pc = "refresh", !.i = @ + 1, !.first = "none",
                                  !.val = 0, !.ranges = {},
                                  !.draw = [ frames |-> irand(lo, hi, s),
                                             ranges |-> aud.ranges ]]
    /\ UNCHANGED <<call, obs, leg, ctl, performed>>

\* lines 328-352: the step pass
RaceStep ==
    /\ aud.pc = "refresh"
    /\ aud.i >= aud.n
    /\ x' = stepPass(x, 0, aud.n, aud.in_index)
    /\ aud' = [aud EXCEPT !.pc = "idle", !.in_sig = <<>>, !.in_index = <<>>]
    /\ performed' = performed + aud.n
    /\ UNCHANGED <<call, obs, leg, ctl>>

NextRace ==
    \/ RaceFloat \/ Ctl241 \/ Ctl242 \/ Ctl243 \/ Ctl246 \/ Ctl247 \/ Ctl251 \/ Ctl252
    \/ RaceDsp64
    \/ RaceBegin \/ RaceSkip \/ RaceFire \/ RaceRead1 \/ RaceRead2 \/ RaceStep

SpecRace == InitRace /\ [][NextRace]_vars

(***************************************************************************)
(* Properties of the perform method.                                       *)
(***************************************************************************)
Acqs == { obs.acqs[j] : j \in DOMAIN obs.acqs }

Emits == { obs.emits[j] : j \in DOMAIN obs.emits }

RAbsLeq(p, q) == Abs(p[1]) * q[2] <= Abs(q[1]) * p[2]

\* C1: every index with which the last block read or wrote the per-bin
\* arrays - the positions of the refresh pass, the bins of updateTarget and
\* of the step pass - lies in 0 .. fftSize-1.
C1_IndexSafety == obs.reads \subseteq Bins(x) /\ obs.bins \subseteq Bins(x)

\* C2 (a.had: the bin has stepped in a leg before this acquisition):
\* a leg that follows another leg of its bin starts from the value the
\* bin last emitted, which is the target of the previous leg; and the first
\* value emitted in a leg differs from the last emitted one by no more than
\* one increment of the leg.
C2_Continuity ==
    /\ \A a \in Acqs :
        a.had => /\ a.baseMag = a.lastMag /\ a.basePhase = a.lastPhase
                 /\ a.baseMag = a.prevTargetMag /\ a.basePhase = a.prevTargetPhase
    /\ \A e \in Emits :
        (e.k = 1 /\ ~e.flag) =>
            /\ RAbsLeq(RSub(e.mag, e.prevMag), e.incMag)
            /\ RAbsLeq(RSub(e.phase, e.prevPhase), e.incPhase)

\* C3: at its k-th step of a running leg of length T with baseline initial
\* and target target, a bin emits initial + k * inc, where
\* inc = (target - initial) / T, and at k = T it emits the target.
C3_LinearApproach ==
    \A e \in Emits :
        ~e.flag =>
            /\ e.k >= 1 /\ e.k <= e.T
            /\ RMulI(e.incMag, e.T) = RSub(e.targetMag, e.initMag)
            /\ RMulI(e.incPhase, e.T) = RSub(e.targetPhase, e.initPhase)
            /\ e.mag = RAdd(e.initMag, RMulI(e.incMag, e.k))
            /\ e.phase = RAdd(e.initPhase, RMulI(e.incPhase, e.k))
            /\ e.k = e.T => (e.mag = e.targetMag /\ e.phase = e.targetPhase)

\* a leg of two or more frames toward another value has reached its target
C3_Witness ==
    \E e \in Emits :
        /\ ~e.flag /\ e.T >= 2 /\ e.k = e.T
        /\ e.targetMag # e.initMag /\ e.mag = e.targetMag

\* C4: every duration drawn by updateTarget lies in [interpMin, interpMax] of
\* the configuration at the draw, and is interpMin when the two are equal.
C4_DurationBounds ==
    \A a \in Acqs :
        /\ a.cfgMin <= a.frames /\ a.frames <= a.cfgMax
        /\ a.cfgMin = a.cfgMax => a.frames = a.cfgMin
        /\ x.totalFrames[a.bin] >= 1

\* a duration strictly inside a range of several values has been drawn
C4_Witness ==
    \E a \in Acqs : a.cfgMin < a.frames /\ a.frames < a.cfgMax

\* the steps of the legs drawn from a one-value range: T is that value, the
\* k-th step emits initial + k * (target - initial) / T, the leg completes
\* at the T-th step and not before
FixedLegsLinear ==
    \A e \in Emits :
        (~e.flag /\ e.lo = e.hi) =>
            /\ e.T = e.lo
            /\ RMulI(RSub(e.mag, e.initMag), e.T) = RMulI(RSub(e.targetMag, e.initMag), e.k)
            /\ RMulI(RSub(e.phase, e.initPhase), e.T)
                 = RMulI(RSub(e.targetPhase, e.initPhase), e.k)
            /\ e.done <=> (e.k = e.T)

\* the first step of a bin after its T-th step, both legs of fixed length
AfterFixedLeg(e) ==
    e.k = 1 /\ ~e.flag /\ e.prevDone /\ e.prevFixed /\ e.lo = e.hi

\* C7 as stated: with interpMin = interpMax = T (215 for 10 s at 44100 Hz and
\* size 2048) a leg emits the line from its baseline to its target over
\* exactly T steps, and at the step after the T-th the bin emits the reached
\* target again.
C7_HoldsAtTarget ==
    /\ secondsToFrames(RInt(10), 44100, 2048) = 215
    /\ FixedLegsLinear
    /\ \A e \in Emits :
        AfterFixedLeg(e) => (e.mag = e.prevMag /\ e.phase = e.prevPhase)

\* C7 amended: ... and at the step after the T-th, its next target c having
\* been acquired in the refresh pass of the same block, the bin emits
\* b + (c - b) / T, b being the reached target.
C7_FixedLeg ==
    /\ secondsToFrames(RInt(10), 44100, 2048) = 215
    /\ FixedLegsLinear
    /\ \A e \in Emits :
        AfterFixedLeg(e) =>
            /\ e.prevMag = e.initMag /\ e.prevPhase = e.initPhase
            /\ RMulI(RSub(e.mag, e.prevMag), e.T) = RSub(e.targetMag, e.prevMag)
            /\ RMulI(RSub(e.phase, e.prevPhase), e.T) = RSub(e.targetPhase, e.prevPhase)

\* a bin has completed a leg of fixed length and stepped toward a new value
C7_Witness ==
    \E e \in Emits :
        /\ AfterFixedLeg(e) /\ e.T >= 2
        /\ e.targetMag # e.prevMag /\ e.mag # e.prevMag

\* C13: the step pass never adds the increments to a bin whose updateTarget
\* flag is raised at that moment.
C13_NoStaleStep == \A e \in Emits : ~e.flag

\* C14: a position i whose flag is raised is refreshed in its own entry:
\* the target of entry i is carried into its current value and updateTarget
\* acts on entry i with the inputs of position i, leaving entry i with the
\* flag down, frameCount 0, the inputs as target and increments that lead
\* from the carried value to them in totalFrames steps.
C14_RefreshOwnEntry ==
    \A a \in Acqs :
        /\ a.pos \in Bins(x)
        /\ a.bin = a.pos
        /\ a.own.updateTarget = 0 /\ a.own.frameCount = 0
        /\ a.own.targetMag = a.mag /\ a.own.targetPhase = a.phase
        /\ a.own.currMag = a.carriedMag
        /\ a.own.currPhase = a.carriedPhase
        /\ RMulI(a.own.incMag, a.own.totalFrames) = RSub(a.mag, a.own.currMag)
        /\ RMulI(a.own.incPhase, a.own.totalFrames) = RSub(a.phase, a.own.currPhase)

\* C15: a step adds one to frameCount; when frameCount reaches totalFrames
\* the flag is raised and frameCount is 0 again; and a bin whose step
\* completed its leg has acquired a new target, with a new duration, when
\* it steps next.
C15_CompletionReacquires ==
    \A e \in Emits :
        /\ e.countAfter = IF e.countBefore + 1 >= e.T THEN 0 ELSE e.countBefore + 1
        /\ e.countBefore + 1 >= e.T => e.flagAfter
        /\ e.prevDone => (e.k = 1 /\ ~e.flag)

\* C17: between blocks, 0 <= frameCount <= totalFrames in every entry.
C17_FrameCountInvariant ==
    \A b \in Bins(x) : 0 <= x.frameCount[b] /\ x.frameCount[b] <= x.totalFrames[b]

\* the last block stepped a bin for which no target was ever acquired
\* (totalFrames 0) and left another bin inside its leg
C17_Witness ==
    /\ \E e \in Emits : e.T = 0 /\ x.totalFrames[e.bin] = 0
    /\ \E b \in Bins(x) : x.frameCount[b] >= 1

\* the bin to which an index resolves: the index itself inside the table,
\* the first bin below it, the last bin above it
Resolves(bin, index) ==
    /\ bin \in Bins(x)
    /\ index \in Bins(x) => bin = index
    /\ index < 0 => bin = 0
    /\ index >= x.fftSize => bin = x.fftSize - 1

\* C18: updateTarget(mag, phase, index) leaves the entry of the resolved bin
\* with target (mag, phase), totalFrames the drawn duration, increments
\* (mag - curr) / totalFrames and (phase - curr) / totalFrames, frameCount 0
\* and the flag down; the current values of the entry are as before and no
\* other entry is changed.
C18_AcquisitionPost ==
    \A a \in Acqs :
        /\ Resolves(a.bin, a.index)
        /\ a.after.targetMag = a.mag /\ a.after.targetPhase = a.phase
        /\ a.after.totalFrames = a.drawn /\ a.drawn >= 1
        /\ RMulI(a.after.incMag, a.drawn) = RSub(a.mag, a.baseMag)
        /\ RMulI(a.after.incPhase, a.drawn) = RSub(a.phase, a.basePhase)
        /\ a.after.frameCount = 0 /\ a.after.updateTarget = 0
        /\ a.after.currMag = a.baseMag
        /\ a.after.currPhase = a.basePhase
        /\ a.touched \subseteq {a.bin}

\* a target acquired through an index outside the table, for a bin that had
\* stepped part of a leg, with a duration of several frames and a non-zero
\* increment
C18_Witness ==
    \E a \in Acqs :
        /\ a.index \notin Bins(x)
        /\ a.had /\ a.lastMag # a.prevTargetMag
        /\ a.drawn >= 2
        /\ a.after.incMag # Zero
        /\ a.touched = {a.bin}

\* the per-bin arrays of o
Table(o) == [b \in Bins(o) |-> Entry(o, b)]

\* the configuration setInterpolationTime stores
Config(o) == <<o.interpLengthSecs, o.interpVarianceSecs, Derived(o)>>

\* C19: a step that changes the configuration (a float message, through
\* setInterpolationTime) changes no entry of the per-bin arrays, so the legs
\* under way keep their totalFrames, increments and frameCount; and the
\* durations a block draws are drawn from the range [interpMin, interpMax]
\* in effect when the block runs.
C19_FloatLeavesTable ==
    [][ /\ Config(x') # Config(x) => Table(x') = Table(x)
        /\ performed' # performed =>
               \A j \in DOMAIN obs'.acqs :
                   <<obs'.acqs[j].lo, obs'.acqs[j].hi>> = Range(x) ]_vars

\* a bin inside a leg whose duration lies outside the range now in effect:
\* the range was changed after the duration was drawn
C19_Witness ==
    \E b \in Bins(x) :
        /\ x.updateTarget[b] = 0
        /\ x.frameCount[b] >= 1
        /\ x.totalFrames[b] > x.interpMax

\* C20: only the perform method changes the per-bin arrays: a step of the
\* control path (a float message, a DSP start), which performs no frame,
\* leaves every entry as it was.
C20_OnlyPerformMutates == [][performed' = performed => Table(x') = Table(x)]_vars

\* C21: the object as constructed has every numeric field of every entry
\* zero and every updateTarget flag raised; and in the first block every
\* position below the block length acquires a target.
C21_InitialFlagsRaised ==
    /\ (performed = 0 /\ ~aud.on) =>
           \A b \in Bins(x) :
               Entry(x, b) = [ currMag |-> Zero, currPhase |-> Zero,
                               targetMag |-> Zero, targetPhase |-> Zero,
                               incMag |-> Zero, incPhase |-> Zero,
                               totalFrames |-> 0, frameCount |-> 0,
                               updateTarget |-> 1 ]
    /\ (obs.n > 0 /\ performed = obs.n) =>
           { a.pos : a \in Acqs } = 0 .. (obs.n - 1)

\* C23: a leg of duration totalFrames completes, raising the flag of its
\* bin, at the totalFrames-th step of the bin and not before; and a bin is
\* not given a new target (frameCount reset) while the leg it is stepping
\* has not completed.
C23_LegProgress ==
    /\ \A e \in Emits : ~e.flag => (e.flagAfter <=> e.k = e.T)
    /\ \A a \in Acqs : a.had => a.legDone

(***************************************************************************)
(* Properties of the configuration.                                        *)
(***************************************************************************)
\* k is the quotient secs * rate / fft truncated (secs >= 0)
IsTruncated(k, secs, rate, fft) ==
    /\ k * secs[2] * fft <= secs[1] * rate
    /\ secs[1] * rate < (k + 1) * secs[2] * fft

\* k is the quotient secs * rate / fft rounded to nearest (secs >= 0)
IsRounded(k, secs, rate, fft) ==
    /\ 2 * k * secs[2] * fft <= 2 * secs[1] * rate + secs[2] * fft
    /\ 2 * secs[1] * rate - secs[2] * fft <= 2 * k * secs[2] * fft

\* the frame counts are derived from the stored seconds at the given rate,
\* with the quotient relation Q (IsTruncated or IsRounded)
DerivedBy(Q(_, _, _, _), rate) ==
    /\ \E k \in 0 .. x.interpLengthFrames :
        /\ Q(k, x.interpLengthSecs, rate, x.fftSize)
        /\ x.interpLengthFrames = IF k > 1 THEN k ELSE 1
    /\ Q(x.interpVarianceFrames, x.interpVarianceSecs, rate, x.fftSize)
    /\ x.interpMin = IF x.interpLengthFrames - x.interpVarianceFrames > 1
                     THEN x.interpLengthFrames - x.interpVarianceFrames ELSE 1
    /\ x.interpMax = x.interpLengthFrames + x.interpVarianceFrames

AfterSet == call.op \in {"interp_new", "interp_float"}

\* C8 as stated: after setInterpolationTime the frame counts are the
\* quotients seconds * sampleRate / transformSize rounded to nearest (the
\* length floored to 1), min = max(length - variance, 1), max = length + variance.
C8_DerivedRounded == AfterSet => DerivedBy(IsRounded, x.sampleRate)

\* C8 amended: the same with the quotients truncated toward zero, as the
\* conversion to int does.
C8_DerivedTruncated == AfterSet => DerivedBy(IsTruncated, x.sampleRate)

\* a set call whose length quotient has a fraction of one half or more and
\* whose variance quotient is not whole: truncation and rounding differ
C8_Witness ==
    /\ call.op = "interp_float"
    /\ x.interpLengthFrames >= 2
    /\ ~IsRounded(x.interpLengthFrames, x.interpLengthSecs, x.sampleRate, x.fftSize)
    /\ x.interpVarianceFrames >= 1
    /\ x.interpVarianceFrames * x.interpVarianceSecs[2] * x.fftSize
         < x.interpVarianceSecs[1] * x.sampleRate
    /\ x.interpMin > 1

\* C9: after the DSP start has reported a sample rate, the stored rate is the
\* reported one and the frame counts are the ones derived from the stored
\* seconds at that rate.
C9_RateChangeRecomputes ==
    call.op = "interp_dsp64" => DerivedBy(IsTruncated, x.sampleRate)

\* the bound a of a clamp to [lo, hi], stated by cases
ClampedTo(v, a, lo, hi) ==
    /\ RLess(a, RInt(lo)) => v = RInt(lo)
    /\ RLess(RInt(hi), a) => v = RInt(hi)
    /\ (~RLess(a, RInt(lo)) /\ ~RLess(RInt(hi), a)) => v = a

\* C10: the stored length is the argument of the last setInterpolationTime
\* clamped to [0, 30], the stored variance its argument clamped to [0, 15];
\* arguments in range are stored as they are.
C10_Clamped ==
    call.op # "none" =>
        /\ ClampedTo(x.interpLengthSecs, call.len, MIN_LENGTH, MAX_LENGTH)
        /\ ClampedTo(x.interpVarianceSecs, call.var, MIN_VARIANCE, MAX_VARIANCE)

\* a float above the range has been stored as 30 next to a variance in range
C10_Witness ==
    /\ call.op = "interp_float"
    /\ RLess(RInt(MAX_LENGTH), call.len)
    /\ x.interpLengthSecs = RInt(MAX_LENGTH)
    /\ call.var = R(1, 2)
    /\ x.interpVarianceSecs = R(1, 2)

\* C11: when setInterpolationTime is called again with the arguments of the
\* call before it, the sample rate and the transform size unchanged, the
\* length and variance in frames, interpMin and interpMax are after the
\* second call what they were after the first.
C11_Idempotent == call.again => Derived(x) = call.was

\* a repeated call with a length above the range and a variance that
\* lowers interpMin below the length
C11_Witness ==
    /\ call.again
    /\ RLess(RInt(MAX_LENGTH), call.len)
    /\ x.interpVarianceFrames >= 1
    /\ x.interpMin > 1
    /\ x.interpMin < x.interpLengthFrames

\* C12: the object the constructor returns has every one of its per-bin
\* arrays (when an allocation failed, no object is returned).
C12_NoPartialEngine == call.op = "interp_new" => x.null = {}

\* C22: after the destructor every per-bin array that construction
\* allocated has been released.
C22_AllReleased == call.op = "interp_free" => (Arrays \ x.null) \subseteq x.freed

(***************************************************************************)
(* Properties of a configuration update racing with a perform block.       *)
(***************************************************************************)
\* C5: a duration drawn while setInterpolationTime runs lies in the range
\* [interpMin, interpMax] of before the call or in that of after it (in one
\* of the ranges in effect while the draw read the two fields).
C5_BoundedStaleness ==
    aud.draw.ranges # {} =>
        \E r \in aud.draw.ranges : r[1] <= aud.draw.frames /\ aud.draw.frames <= r[2]

\* C6: interpMin >= 1 and interpMin <= interpMax in every state, the states
\* between the stores of setInterpolationTime included.
C6_ConfigInvariant == x.interpMin >= 1 /\ x.interpMin <= x.interpMax

\* C16: every duration drawn by updateTarget, by which it then divides, is
\* at least 1, also when setInterpolationTime runs between the reads of
\* interpMin and interpMax.
C16_NoDivisionByZero == aud.draw.ranges # {} => aud.draw.frames >= 1

\* a duration drawn from a range that mixes the bounds of before and of
\* after a configuration update
C16_Witness ==
    /\ Cardinality(aud.draw.ranges) = 2
    /\ \A r \in aud.draw.ranges : ~(r[1] <= aud.draw.frames /\ aud.draw.frames <= r[2])
    /\ \E b \in Bins(x) : x.totalFrames[b] = aud.draw.frames

====
